---------------------------- MODULE Spec2Model ----------------------------
(***************************************************************************)
(* CondaEnvService (src/client/interpreter/locators/services/              *)
(* condaEnvService.ts): discovery of Conda interpreters.                   *)
(*                                                                         *)
(* A JavaScript string is a sequence of one-character strings, so that     *)
(* split, join, trim, indexOf, toUpperCase and the path functions are      *)
(* computed character by character.  An optional or dynamically typed      *)
(* value is a record [k, v]: k = "undef" (absent), "str" (a string, v its  *)
(* characters) or "num" (a value that is not a string).  Paths follow the  *)
(* POSIX flavour of Node's path module.                                    *)
(***************************************************************************)
EXTENDS Integers, Sequences, FiniteSets

VARIABLES
    registryLookupForConda, \* constructor argument: "absent" or "present"
    fs,                     \* the filesystem: the set of paths that exist
    stdout,                 \* what `conda info --json` writes on this machine
    entry,                  \* the public method the caller uses
    pc,                     \* position of the call in flight
    calls,                  \* calls started so far
    interpreters,           \* list the secondary provider resolved with
    latest,                 \* getLatestVersion's return value (<<>> = undefined)
    condaFile,              \* value getCondaFile resolved with
    execCount,              \* execFile invocations of the call in flight
    execErr,                \* first argument of the execFile callback
    info,                   \* the descriptor object handed to parseCondaInfo
    arg,                    \* value of that descriptor when the call began
    displayName,            \* parseCondaInfo's local displayName
    envs,                   \* parseCondaInfo's local envs (after the push)
    promises,               \* interpreter records built by the first map
    checks,                 \* per candidate: "pending", "yes" or "no"
    result,                 \* list the call resolved with
    results,                \* results of the completed calls, oldest first
    log                     \* steps of the call in flight, in order

vars == <<registryLookupForConda, fs, stdout, entry, pc, calls, interpreters,
          latest, condaFile, execCount, execErr, info, arg, displayName, envs,
          promises, checks, result, results, log>>

-----------------------------------------------------------------------------
(* Bounds of the model *)

MaxEnvs == 2
MaxInterps == 2
MaxCalls == 2

-----------------------------------------------------------------------------
(* Optional / dynamically typed values *)

Undef == [k |-> "undef", v |-> <<>>]
Str(s) == [k |-> "str", v |-> s]
NotAString == [k |-> "num", v |-> <<>>]

\* `x || ''` and a default parameter `= ''` for a string-typed value
OrEmpty(x) == IF x.k = "str" THEN x.v ELSE <<>>

-----------------------------------------------------------------------------
(* String primitives of the JavaScript runtime *)

RECURSIVE JoinWith(_, _)
JoinWith(parts, sep) ==
    IF Len(parts) = 0 THEN <<>>
    ELSE IF Len(parts) = 1 THEN parts[1]
    ELSE parts[1] \o sep \o JoinWith(Tail(parts), sep)

\* s.split(c) for a one-character separator c
RECURSIVE SplitAcc(_, _, _, _)
SplitAcc(s, c, i, cur) ==
    IF i > Len(s) THEN <<cur>>
    ELSE IF s[i] = c THEN <<cur>> \o SplitAcc(s, c, i + 1, <<>>)
    ELSE SplitAcc(s, c, i + 1, Append(cur, s[i]))

Split(s, c) == SplitAcc(s, c, 1, <<>>)

MatchesAt(s, sub, i) ==
    /\ i + Len(sub) - 1 <= Len(s)
    /\ \A j \in 1..Len(sub) : s[i + j - 1] = sub[j]

\* s.indexOf(sub): zero-based position of the first occurrence, or -1
IndexOf(s, sub) ==
    LET hits == {i \in 1..(Len(s) + 1) : MatchesAt(s, sub, i)}
    IN  IF hits = {} THEN -1
        ELSE (CHOOSE i \in hits : \A j \in hits : i <= j) - 1

IsSpace(c) == c = " "

RECURSIVE TrimLeft(_)
TrimLeft(s) ==
    IF Len(s) > 0 /\ IsSpace(s[1]) THEN TrimLeft(Tail(s)) ELSE s

RECURSIVE TrimRight(_)
TrimRight(s) ==
    IF Len(s) > 0 /\ IsSpace(s[Len(s)])
    THEN TrimRight(SubSeq(s, 1, Len(s) - 1)) ELSE s

Trim(s) == TrimRight(TrimLeft(s))

LowerCase == <<"a", "b", "c", "d", "e", "f", "g", "h", "i", "j", "k", "l", "m",
               "n", "o", "p", "q", "r", "s", "t", "u", "v", "w", "x", "y", "z">>
UpperCase == <<"A", "B", "C", "D", "E", "F", "G", "H", "I", "J", "K", "L", "M",
               "N", "O", "P", "Q", "R", "S", "T", "U", "V", "W", "X", "Y", "Z">>

UpChar(c) ==
    IF \E i \in 1..Len(LowerCase) : LowerCase[i] = c
    THEN UpperCase[CHOOSE i \in 1..Len(LowerCase) : LowerCase[i] = c]
    ELSE c

ToUpperCase(s) == [i \in 1..Len(s) |-> UpChar(s[i])]

\* array.filter(item => item.length > 0)
NonEmpty(parts) == SelectSeq(parts, LAMBDA p : Len(p) > 0)

-----------------------------------------------------------------------------
(* Node's path module, POSIX flavour *)

RECURSIVE NormSegs(_, _, _)
NormSegs(segs, acc, abs) ==
    IF Len(segs) = 0 THEN acc
    ELSE LET s == Head(segs)
             dotdot == <<".", ".">>
         IN  IF s = <<>> \/ s = <<".">> THEN NormSegs(Tail(segs), acc, abs)
             ELSE IF s = dotdot
             THEN IF Len(acc) > 0 /\ acc[Len(acc)] # dotdot
                  THEN NormSegs(Tail(segs), SubSeq(acc, 1, Len(acc) - 1), abs)
                  ELSE IF abs THEN NormSegs(Tail(segs), acc, abs)
                  ELSE NormSegs(Tail(segs), Append(acc, s), abs)
             ELSE NormSegs(Tail(segs), Append(acc, s), abs)

pathNormalize(p) ==
    IF Len(p) = 0 THEN <<".">>
    ELSE LET abs == p[1] = "/"
             trailing == p[Len(p)] = "/"
             body == JoinWith(NormSegs(Split(p, "/"), <<>>, abs), <<"/">>)
         IN  IF Len(body) = 0
             THEN IF abs THEN <<"/">>
                  ELSE IF trailing THEN <<".", "/">> ELSE <<".">>
             ELSE (IF abs THEN <<"/">> ELSE <<>>) \o body
                  \o (IF trailing THEN <<"/">> ELSE <<>>)

\* path.join(...parts)
pathJoin(parts) ==
    LET joined == JoinWith(NonEmpty(parts), <<"/">>)
    IN  IF Len(joined) = 0 THEN <<".">> ELSE pathNormalize(joined)

\* index of the last character that is not a trailing slash (0 if none)
RECURSIVE LastNonSlash(_, _)
LastNonSlash(p, i) ==
    IF i = 0 THEN 0
    ELSE IF p[i] # "/" THEN i ELSE LastNonSlash(p, i - 1)

\* index of the last slash at or before i (0 if none)
RECURSIVE LastSlash(_, _)
LastSlash(p, i) ==
    IF i = 0 THEN 0
    ELSE IF p[i] = "/" THEN i ELSE LastSlash(p, i - 1)

\* path.basename(p)
pathBasename(p) ==
    LET e == LastNonSlash(p, Len(p))
    IN  IF e = 0 THEN <<>> ELSE SubSeq(p, LastSlash(p, e) + 1, e)

\* path.dirname(p)
pathDirname(p) ==
    IF Len(p) = 0 THEN <<".">>
    ELSE LET hasRoot == p[1] = "/"
             e == LastNonSlash(p, Len(p))
             sl == IF e = 0 THEN 0 ELSE LastSlash(p, e)
         IN  IF sl <= 1
             THEN IF hasRoot THEN <<"/">> ELSE <<".">>
             ELSE IF hasRoot /\ sl = 2 THEN <<"/", "/">>
             ELSE SubSeq(p, 1, sl - 1)

-----------------------------------------------------------------------------
(* String constants *)

\* ./conda: the vendor tag and the default display name
AnacondaCompanyName == <<"C", "o", "n", "t", "i", "n", "u", "u", "m", " ", "A", "n", "a", "l", "y", "t", "i", "c", "s", ",", " ", "I", "n", "c", ".">>
AnacondaDisplayName == <<"A", "n", "a", "c", "o", "n", "d", "a">>
\* ./conda: path of the interpreter inside an environment (non-Windows)
CONDA_RELATIVE_PY_PATH == << <<"b", "i", "n">>, <<"p", "y", "t", "h", "o", "n">> >>

S_conda == <<"c", "o", "n", "d", "a">>
S_condaExe == <<"c", "o", "n", "d", "a", ".", "e", "x", "e">>
S_ANACONDA == <<"A", "N", "A", "C", "O", "N", "D", "A">>
S_CONTINUUM == <<"C", "O", "N", "T", "I", "N", "U", "U", "M">>
S_64bit == <<"6", "4", " ", "b", "i", "t">>
S_32bit == <<"3", "2", " ", "b", "i", "t">>
x64Values == << <<"6", "4">>, <<"x", "8", "6">>, <<"x", "8", "6", "_", "6", "4">> >>
x86Values == << <<"3", "2">>, <<"i", "6", "8", "6">>, <<"i", "3", "8", "6">> >>

-----------------------------------------------------------------------------
(* Display-name heuristics *)

\* getDisplayVersion(value = ''), for a string or absent value
getDisplayVersion(value) ==
    LET parts == Split(value, ".")
        kept == SubSeq(parts, 1, IF Len(parts) < 3 THEN Len(parts) ELSE 3)
    IN  JoinWith(kept, <<".">>)

\* getBitnessDisplayName(value = ''), for a string or absent value
getBitnessDisplayName(value) ==
    IF \E i \in 1..Len(x64Values) : IndexOf(value, x64Values[i]) >= 0
    THEN S_64bit
    ELSE IF \E i \in 1..Len(x86Values) : IndexOf(value, x86Values[i]) >= 0
    THEN S_32bit
    ELSE value

\* getDisplayNameFromSysVersion(versionInfo = '')
getDisplayNameFromSysVersion(versionInfo) ==
    IF Len(versionInfo) = 0 THEN AnacondaDisplayName
    ELSE LET versionParts ==
                 [i \in 1..Len(Split(versionInfo, "|")) |->
                     Trim(Split(versionInfo, "|")[i])]
         IN  IF Len(versionParts) > 1 /\ IndexOf(versionParts[2], S_conda) >= 0
             THEN versionParts[2]
             ELSE AnacondaDisplayName

\* getDisplayName throws a TypeError: split / indexOf of a value that is
\* not a string
getDisplayNameThrows(i) ==
    i.python_version.k = "num" \/ i.platform.k = "num"

BitnesAndVersion(i) ==
    JoinWith(NonEmpty(<<getBitnessDisplayName(OrEmpty(i.platform)),
                        getDisplayVersion(OrEmpty(i.python_version))>>),
             <<",", " ">>)

\* getDisplayName(info), for an info that does not make it throw
getDisplayName(i) ==
    LET condaVersion == OrEmpty(i.conda_version)
        \* a conda_version that is not a string has no length: it is
        \* neither of length 0 nor kept by the final filter
        condaVersionEmpty == i.conda_version.k # "num" /\ Len(condaVersion) = 0
        pythonVersion == getDisplayVersion(OrEmpty(i.python_version))
        bitnesAndVersion == BitnesAndVersion(i)
        sysVersion == i.sys_version
    IN  IF /\ condaVersionEmpty
           /\ Len(pythonVersion) = 0
           /\ Len(bitnesAndVersion) = 0
           /\ sysVersion.k = "str"
        THEN getDisplayNameFromSysVersion(sysVersion.v)
        ELSE Trim(JoinWith(NonEmpty(<<AnacondaCompanyName,
                                      condaVersion,
                                      IF Len(bitnesAndVersion) > 0
                                      THEN <<"(">> \o bitnesAndVersion \o <<")">>
                                      ELSE <<>> >>),
                           <<" ">>))

-----------------------------------------------------------------------------
(* Locator *)

\* VersionUtils.compareVersion: dotted-numeric comparison
Digits == <<"0", "1", "2", "3", "4", "5", "6", "7", "8", "9">>

DigitValue(c) ==
    IF \E d \in 1..Len(Digits) : Digits[d] = c
    THEN (CHOOSE d \in 1..Len(Digits) : Digits[d] = c) - 1
    ELSE 0

RECURSIVE ParseNumber(_, _)
ParseNumber(s, acc) ==
    IF Len(s) = 0 THEN acc
    ELSE ParseNumber(Tail(s), 10 * acc + DigitValue(Head(s)))

Segment(parts, n) == IF n <= Len(parts) THEN ParseNumber(parts[n], 0) ELSE 0

RECURSIVE CompareFrom(_, _, _)
CompareFrom(a, b, n) ==
    IF n > Len(a) /\ n > Len(b) THEN 0
    ELSE IF Segment(a, n) < Segment(b, n) THEN -1
    ELSE IF Segment(a, n) > Segment(b, n) THEN 1
    ELSE CompareFrom(a, b, n + 1)

compareVersion(versionA, versionB) ==
    CompareFrom(Split(versionA, "."), Split(versionB, "."), 1)

\* isCondaEnvironment(interpreter)
isCondaEnvironment(interpreter) ==
    \/ IndexOf(ToUpperCase(OrEmpty(interpreter.displayName)), S_ANACONDA) >= 0
    \/ IndexOf(ToUpperCase(OrEmpty(interpreter.companyDisplayName)), S_CONTINUUM) >= 0

\* Array.prototype.sort with a comparator: a stable insertion sort
RECURSIVE InsertSorted(_, _)
InsertSorted(sorted, x) ==
    IF Len(sorted) = 0 THEN <<x>>
    ELSE IF compareVersion(sorted[Len(sorted)].version.v, x.version.v) <= 0
    THEN Append(sorted, x)
    ELSE Append(InsertSorted(SubSeq(sorted, 1, Len(sorted) - 1), x),
                sorted[Len(sorted)])

RECURSIVE SortByVersion(_)
SortByVersion(list) ==
    IF Len(list) = 0 THEN <<>>
    ELSE InsertSorted(SortByVersion(SubSeq(list, 1, Len(list) - 1)),
                      list[Len(list)])

HasVersion(interpreter) ==
    interpreter.version.k = "str" /\ Len(interpreter.version.v) > 0

\* variant: the first element of the sorted array taken for the last
getLatestVersionFirst(list) ==
    LET sortedInterpreters == SortByVersion(SelectSeq(list, HasVersion))
    IN  IF Len(sortedInterpreters) > 0
        THEN <<sortedInterpreters[1]>>
        ELSE <<>>

\* getLatestVersion(interpreters): <<>> is undefined
getLatestVersion(list) ==
    LET sortedInterpreters == SortByVersion(SelectSeq(list, HasVersion))
    IN  IF Len(sortedInterpreters) > 0
        THEN <<sortedInterpreters[Len(sortedInterpreters)]>>
        ELSE <<>>

\* the path getCondaFile probes (lines 29-33)
CondaPath(list) ==
    LET condaInterpreter == getLatestVersion(SelectSeq(list, isCondaEnvironment))
    IN  IF Len(condaInterpreter) > 0
        THEN pathJoin(<<pathDirname(condaInterpreter[1].path), S_condaExe>>)
        ELSE S_conda

\* fs.pathExists(p)
pathExists(p) == p \in fs

-----------------------------------------------------------------------------
(* Inputs: what the machine and the collaborators can present *)

P_root == <<"/", "r">>
P_foo == <<"/", "e", "/", "f", "o", "o">>
EnvRoots == {P_root, P_foo}

RECURSIVE SeqsUpTo(_, _)
SeqsUpTo(S, n) ==
    IF n = 0 THEN {<<>>}
    ELSE LET shorter == SeqsUpTo(S, n - 1)
         IN  shorter \cup {Append(s, x) : s \in shorter, x \in S}

\* sequences without repetition
DistinctSeqsUpTo(S, n) ==
    {s \in SeqsUpTo(S, n) : \A a, b \in 1..Len(s) : a # b => s[a] # s[b]}

CV_440 == <<"4", ".", "4", ".", "0">>
PV_3612 == <<"3", ".", "6", ".", "1", ".", "2">>
PL_linux64 == <<"l", "i", "n", "u", "x", "-", "6", "4">>
PL_osx32 == <<"o", "s", "x", "-", "3", "2">>
PL_noarch == <<"n", "o", "a", "r", "c", "h">>
SV_full == <<"3", ".", "6", ".", "1", " ", "|", "A", "n", "a", "c", "o", "n", "d", "a", " ", "4", ".", "4", ".", "0", " ", "(", "6", "4", "-", "b", "i", "t", ")", "|", " ", "(", "d", "e", "f", "a", "u", "l", "t", ")">>
SV_short == <<"3", " ", "|", " ", "M", "i", "n", "i", "c", "o", "n", "d", "a", " ", "4", " ", "|", "x">>
SV_other == <<"3", " ", "|", "C", "P", "y", "t", "h", "o", "n", "|", " ", "x">>
SV_noBar == <<"3", ".", "6", ".", "1">>
SV_conda1 == <<"c", "o", "n", "d", "a", " ", "|">>

\* a CondaInfo object
CondaInfo(e, dp, cv, pv, pl, sv) ==
    [envs |-> e, default_prefix |-> dp, conda_version |-> cv,
     python_version |-> pv, platform |-> pl, sys_version |-> sv]

EmptyObject == CondaInfo(Undef, Undef, Undef, Undef, Undef, Undef)

Arr(list) == [k |-> "arr", v |-> list]

EnvsValues == {Undef} \cup {Arr(l) : l \in SeqsUpTo(EnvRoots, MaxEnvs)}
PrefixValues == {Undef, Str(<<>>), Str(P_root)}

\* well-typed descriptors
Descriptors ==
    {CondaInfo(e, dp, Undef, Undef, Undef, Str(SV_full)) :
        e \in EnvsValues, dp \in PrefixValues}
    \cup
    {CondaInfo(e, dp, Str(CV_440), Str(PV_3612), Str(PL_linux64), Undef) :
        e \in EnvsValues, dp \in PrefixValues}

\* objects of an unexpected shape
OddObjects ==
    {CondaInfo(NotAString, Str(P_root), Undef, Undef, Undef, Undef),
     CondaInfo(Arr(<<P_foo>>), NotAString, NotAString, Undef, Undef, Undef),
     CondaInfo(Arr(<<P_foo>>), Undef, Undef, NotAString, Undef, Undef),
     CondaInfo(Undef, Str(P_root), Undef, Undef, NotAString, Undef)}

\* JSON values: null, a primitive, an object
JsonNull == [t |-> "null", o |-> EmptyObject]
JsonNumber == [t |-> "num", o |-> EmptyObject]
JsonObject(o) == [t |-> "obj", o |-> o]

\* the descriptors `conda info --json` is taken to print
PrintedDescriptors ==
    {CondaInfo(e, dp, Undef, Undef, Undef, Str(SV_full)) :
        e \in {Undef, Arr(<<>>), Arr(<<P_foo>>), Arr(<<P_root, P_foo>>)},
        dp \in PrefixValues}
    \cup
    {CondaInfo(Arr(<<P_foo, P_foo>>), Str(P_root), Str(CV_440), Str(PV_3612),
               Str(PL_linux64), Undef)}

JsonValues ==
    {JsonNull, JsonNumber}
    \cup {JsonObject(o) : o \in PrintedDescriptors \cup OddObjects}

StdoutEmpty == [kind |-> "empty", val |-> JsonNull]
StdoutText == [kind |-> "text", val |-> JsonNull]
Stdouts ==
    {StdoutEmpty, StdoutText} \cup {[kind |-> "json", val |-> j] : j \in JsonValues}

\* JSON.parse(stdout) throws a SyntaxError
JsonParseThrows(out) == out.kind # "json"
\* JSON.parse(stdout)
JsonParse(out) == out.val

\* a PythonInterpreter
Interpreter(p, dn, cdn, ver) ==
    [path |-> p, displayName |-> dn, companyDisplayName |-> cdn, version |-> ver]

V_380 == <<"3", ".", "8", ".", "0">>
V_3100 == <<"3", ".", "1", "0", ".", "0">>
V_310 == <<"3", ".", "1", "0">>
V_39 == <<"3", ".", "9">>
V_311 == <<"3", ".", "1", "1">>
I_a == Interpreter(<<"/", "a", "/", "p", "y", "t", "h", "o", "n">>,
                   Str(<<"A", "n", "a", "c", "o", "n", "d", "a", "3">>), Undef, Str(V_380))
I_b == Interpreter(<<"/", "b", "/", "p", "y", "t", "h", "o", "n">>,
                   Undef, Str(<<"C", "o", "n", "t", "i", "n", "u", "u", "m">>), Str(V_3100))
I_c == Interpreter(<<"/", "c", "/", "p", "y", "t", "h", "o", "n">>,
                   Str(<<"P", "y", "t", "h", "o", "n">>), Str(<<"P", "S", "F">>), Str(V_311))
I_d == Interpreter(<<"/", "b", "/", "p", "y", "t", "h", "o", "n">>,
                   Str(<<"a", "n", "a", "c", "o", "n", "d", "a">>), Undef, Undef)
RegistryInterpreters == {I_a, I_b, I_c, I_d}

\* interpreter path of an environment root (line 68)
PythonPath(env) == pathJoin(<<env>> \o CONDA_RELATIVE_PY_PATH)

FsUniverse ==
    {PythonPath(e) : e \in EnvRoots}
    \cup {<<"/", "b", "/", "c", "o", "n", "d", "a", ".", "e", "x", "e">>}

-----------------------------------------------------------------------------
(* parseCondaInfo, step by step *)

\* line 58: info.default_prefix && info.default_prefix.length > 0
HasDefaultPrefix(o) ==
    o.default_prefix.k = "str" /\ Len(o.default_prefix.v) > 0

\* variant: default_prefix placed before the envs entries (unshift for push)
LocalEnvsPrefixFirst(o) ==
    (IF HasDefaultPrefix(o) THEN <<o.default_prefix.v>> ELSE <<>>)
    \o (IF o.envs.k = "arr" THEN o.envs.v ELSE <<>>)

\* lines 57-60: the local envs; the push goes to info.envs itself when that
\* is an array
LocalEnvs(o) ==
    (IF o.envs.k = "arr" THEN o.envs.v ELSE <<>>)
    \o (IF HasDefaultPrefix(o) THEN <<o.default_prefix.v>> ELSE <<>>)

\* the descriptor object after lines 57-60
AfterPush(o) ==
    IF o.envs.k = "arr" THEN [o EXCEPT !.envs = Arr(LocalEnvs(o))] ELSE o

\* line 65: env === info.default_prefix
IsDefaultPrefix(env, o) ==
    o.default_prefix.k = "str" /\ env = o.default_prefix.v

\* variant: the environment suffix added to every candidate, the root too
InterpreterDisplayNameSuffixed(env, o, name) ==
    name \o <<" ", "(">> \o pathBasename(env) \o <<")">>

\* line 65
InterpreterDisplayName(env, o, name) ==
    IF IsDefaultPrefix(env, o) THEN name
    ELSE name \o <<" ", "(">> \o pathBasename(env) \o <<")">>

\* lines 63-73: the first map
ToInterpreter(env, o, name) ==
    Interpreter(PythonPath(env), Str(InterpreterDisplayName(env, o, name)),
                Str(AnacondaCompanyName), Undef)

\* variant: the answer of the existence check ignored
CheckAnswerIgnored(exists) == "yes"

\* line 74: exists ? env : null
CheckAnswer(exists) == IF exists THEN "yes" ELSE "no"

\* variant: first-wins (Promise.race) in place of the barrier
FirstSettled(chk) == Len(chk) = 0 \/ \E i \in 1..Len(chk) : chk[i] # "pending"

\* line 76: Promise.all settles once every promise has
AllSettled(chk) == \A i \in 1..Len(chk) : chk[i] # "pending"

\* lines 77-79: the non-null entries, in the order of the array
RECURSIVE Kept(_, _)
Kept(list, chk) ==
    IF Len(list) = 0 THEN <<>>
    ELSE (IF Head(chk) = "yes" THEN <<Head(list)>> ELSE <<>>)
         \o Kept(Tail(list), Tail(chk))

\* parseCondaInfo throws before it returns its promise
ParseThrows(j) == j.t = "null" \/ getDisplayNameThrows(j.o)

\* lines 53-74 for the value j: what the synchronous part leaves behind
ParseBody(j) ==
    IF ParseThrows(j)
    THEN /\ pc' = "rejected"
         /\ info' = j
         /\ UNCHANGED <<displayName, envs, promises, checks>>
    ELSE LET name == getDisplayName(j.o)
             roots == LocalEnvs(j.o)
         IN  /\ pc' = "checking"
             /\ displayName' = name
             /\ envs' = roots
             /\ info' = [j EXCEPT !.o = AfterPush(j.o)]
             /\ promises' = [n \in 1..Len(roots) |->
                               ToInterpreter(roots[n], j.o, name)]
             /\ checks' = [n \in 1..Len(roots) |-> "pending"]

Settled == pc \in {"idle", "done", "rejected"}

\* the per-call state a new call starts from
FreshCall ==
    /\ calls' = calls + 1
    /\ interpreters' = <<>>
    /\ latest' = <<>>
    /\ execCount' = 0
    /\ execErr' = FALSE
    /\ result' = <<>>

-----------------------------------------------------------------------------
(* getInterpreters: the actions *)

\* getInterpreters() -> getSuggestionsFromConda() -> getCondaFile(), no
\* provider: Promise.resolve('conda')
CallWithoutProvider ==
    /\ entry = "getInterpreters" /\ Settled /\ calls < MaxCalls
    /\ registryLookupForConda = "absent"
    /\ FreshCall
    /\ condaFile' = S_conda
    /\ pc' = "located"
    /\ log' = <<"locate">>
    /\ UNCHANGED <<registryLookupForConda, fs, stdout, entry, info, arg,
                   displayName, envs, promises, checks, results>>

\* ... with a provider: registryLookupForConda.getInterpreters() is pending
CallWithProvider ==
    /\ entry = "getInterpreters" /\ Settled /\ calls < MaxCalls
    /\ registryLookupForConda = "present"
    /\ FreshCall
    /\ condaFile' = <<>>
    /\ pc' = "lookup"
    /\ log' = <<"locate">>
    /\ UNCHANGED <<registryLookupForConda, fs, stdout, entry, info, arg,
                   displayName, envs, promises, checks, results>>

\* the provider resolves; lines 29-35 run up to the fs.pathExists call
LookupResolves ==
    /\ pc = "lookup"
    /\ \E list \in DistinctSeqsUpTo(RegistryInterpreters, MaxInterps) :
          /\ interpreters' = list
          /\ latest' = getLatestVersion(SelectSeq(list, isCondaEnvironment))
    /\ pc' = "exists"
    /\ UNCHANGED <<registryLookupForConda, fs, stdout, entry, calls, condaFile,
                   execCount, execErr, info, arg, displayName, envs, promises,
                   checks, result, results, log>>

\* the provider rejects: nothing in getCondaFile or getSuggestionsFromConda
\* handles it
LookupRejects ==
    /\ pc = "lookup"
    /\ pc' = "rejected"
    /\ UNCHANGED <<registryLookupForConda, fs, stdout, entry, calls,
                   interpreters, latest, condaFile, execCount, execErr, info,
                   arg, displayName, envs, promises, checks, result, results,
                   log>>

\* line 35: exists ? condaPath : 'conda'
CondaFileChecked ==
    /\ pc = "exists"
    /\ condaFile' = IF pathExists(CondaPath(interpreters))
                    THEN CondaPath(interpreters) ELSE S_conda
    /\ pc' = "located"
    /\ UNCHANGED <<registryLookupForConda, fs, stdout, entry, calls,
                   interpreters, latest, execCount, execErr, info, arg,
                   displayName, envs, promises, checks, result, results, log>>

\* lines 101-104: child_process.execFile(condaFile, ['info', '--json'], cb)
ExecFile ==
    /\ pc = "located"
    /\ execCount' = execCount + 1
    /\ pc' = "exec"
    /\ log' = Append(log, "invoke")
    /\ interpreters' = <<>>
    /\ latest' = <<>>
    /\ UNCHANGED <<registryLookupForConda, fs, stdout, entry, calls, condaFile,
                   execErr, info, arg, displayName, envs, promises, checks,
                   result, results>>

\* lines 104-107: the callback, stdout empty
CallbackEmpty ==
    /\ pc = "exec"
    /\ stdout.kind = "empty"
    /\ \E err \in BOOLEAN : execErr' = err
    /\ result' = <<>>
    /\ results' = Append(results, <<>>)
    /\ pc' = "done"
    /\ UNCHANGED <<registryLookupForConda, fs, stdout, entry, calls,
                   interpreters, latest, condaFile, execCount, info, arg,
                   displayName, envs, promises, checks, log>>

\* lines 109-119: JSON.parse throws, the catch resolves with []
CallbackSyntaxError ==
    /\ pc = "exec"
    /\ stdout.kind # "empty" /\ JsonParseThrows(stdout)
    /\ \E err \in BOOLEAN : execErr' = err
    /\ result' = <<>>
    /\ results' = Append(results, <<>>)
    /\ pc' = "done"
    /\ log' = Append(log, "parse")
    /\ UNCHANGED <<registryLookupForConda, fs, stdout, entry, calls,
                   interpreters, latest, condaFile, execCount, info, arg,
                   displayName, envs, promises, checks>>

\* lines 110-111: resolve(this.parseCondaInfo(info)); parseCondaInfo is
\* async, so what it throws rejects the promise handed to resolve
CallbackParsed ==
    /\ pc = "exec"
    /\ stdout.kind # "empty" /\ ~JsonParseThrows(stdout)
    /\ \E err \in BOOLEAN : execErr' = err
    /\ arg' = JsonParse(stdout)
    /\ ParseBody(JsonParse(stdout))
    /\ log' = Append(log, "parse")
    /\ UNCHANGED <<registryLookupForConda, fs, stdout, entry, calls,
                   interpreters, latest, condaFile, execCount, result, results>>

\* a caller holding a descriptor object calls parseCondaInfo(info)
ParseCondaInfo ==
    /\ entry = "parseCondaInfo" /\ Settled /\ calls < MaxCalls
    /\ FreshCall
    /\ arg' = info
    /\ ParseBody(info)
    /\ log' = <<"parse">>
    /\ UNCHANGED <<registryLookupForConda, fs, stdout, entry, condaFile, results>>

\* line 74: one fs.pathExists(env.path) answers
CheckCompletes(n) ==
    /\ pc = "checking"
    /\ checks[n] = "pending"
    /\ checks' = [checks EXCEPT ![n] = CheckAnswer(pathExists(promises[n].path))]
    /\ log' = Append(log, "check")
    /\ UNCHANGED <<registryLookupForConda, fs, stdout, entry, pc, calls,
                   interpreters, latest, condaFile, execCount, execErr, info,
                   arg, displayName, envs, promises, result, results>>

\* lines 76-79: Promise.all, the filter and the map
Join ==
    /\ pc = "checking"
    /\ AllSettled(checks)
    /\ result' = Kept(promises, checks)
    /\ results' = Append(results, Kept(promises, checks))
    /\ pc' = "done"
    /\ log' = Append(log, "join")
    /\ UNCHANGED <<registryLookupForConda, fs, stdout, entry, calls,
                   interpreters, latest, condaFile, execCount, execErr, info,
                   arg, displayName, envs, promises, checks>>

Init ==
    /\ registryLookupForConda \in {"absent", "present"}
    /\ fs \in SUBSET FsUniverse
    /\ entry \in {"getInterpreters", "parseCondaInfo"}
    /\ \/ entry = "getInterpreters" /\ stdout \in Stdouts /\ info = JsonNull
       \/ /\ entry = "parseCondaInfo" /\ registryLookupForConda = "absent"
          /\ stdout = StdoutEmpty
          /\ info \in {JsonObject(o) : o \in Descriptors}
    /\ pc = "idle"
    /\ calls = 0
    /\ interpreters = <<>>
    /\ latest = <<>>
    /\ condaFile = <<>>
    /\ execCount = 0
    /\ execErr = FALSE
    /\ arg = JsonNull
    /\ displayName = <<>>
    /\ envs = <<>>
    /\ promises = <<>>
    /\ checks = <<>>
    /\ result = <<>>
    /\ results = <<>>
    /\ log = <<>>

Next ==
    \/ CallWithoutProvider
    \/ CallWithProvider
    \/ LookupResolves
    \/ LookupRejects
    \/ CondaFileChecked
    \/ ExecFile
    \/ CallbackEmpty
    \/ CallbackSyntaxError
    \/ CallbackParsed
    \/ ParseCondaInfo
    \/ \E n \in 1..Len(checks) : CheckCompletes(n)
    \/ Join

Spec == Init /\ [][Next]_vars

\* the event loop runs the continuation of a settled Promise.all
FairSpec == Spec /\ WF_vars(Join)

-----------------------------------------------------------------------------
(* getDisplayName on its own *)

DisplayInputs ==
    {CondaInfo(Undef, Undef, cv, pv, pl, sv) :
        cv \in {Undef, Str(<<>>), Str(CV_440)},
        pv \in {Undef, Str(<<>>), Str(PV_3612)},
        pl \in {Undef, Str(<<>>), Str(PL_linux64), Str(PL_osx32), Str(PL_noarch)},
        sv \in {Undef, Str(<<>>), Str(SV_full), Str(SV_short), Str(SV_other),
                Str(SV_noBar), Str(SV_conda1)}}

Unused ==
    /\ registryLookupForConda = "absent"
    /\ fs = {}
    /\ stdout = StdoutEmpty
    /\ calls = 0
    /\ condaFile = <<>>
    /\ execCount = 0
    /\ execErr = FALSE
    /\ arg = JsonNull
    /\ envs = <<>>
    /\ promises = <<>>
    /\ checks = <<>>
    /\ result = <<>>
    /\ results = <<>>
    /\ log = <<>>

InitDisplay ==
    /\ entry = "getDisplayName"
    /\ pc = "idle"
    /\ info \in {JsonObject(o) : o \in DisplayInputs}
    /\ displayName = <<>>
    /\ interpreters = <<>>
    /\ latest = <<>>
    /\ Unused

GetDisplayName ==
    /\ entry = "getDisplayName" /\ pc = "idle"
    /\ displayName' = getDisplayName(info.o)
    /\ pc' = "done"
    /\ UNCHANGED <<registryLookupForConda, fs, stdout, entry, calls,
                   interpreters, latest, condaFile, execCount, execErr, info,
                   arg, envs, promises, checks, result, results, log>>

SpecDisplay == InitDisplay /\ [][GetDisplayName]_vars

-----------------------------------------------------------------------------
(* getLatestVersion on its own *)

MaxCandidates == 3

VersionValues ==
    {Undef, Str(<<>>), Str(V_380), Str(V_3100), Str(V_310), Str(V_39)}

VersionInputs ==
    {Interpreter(<<"/", "p">>, Undef, Undef, ver) : ver \in VersionValues}

InitVersion ==
    /\ entry = "getLatestVersion"
    /\ pc = "idle"
    /\ interpreters \in SeqsUpTo(VersionInputs, MaxCandidates)
    /\ latest = <<>>
    /\ info = JsonNull
    /\ displayName = <<>>
    /\ Unused

GetLatestVersion ==
    /\ entry = "getLatestVersion" /\ pc = "idle"
    /\ latest' = getLatestVersion(interpreters)
    /\ pc' = "done"
    /\ UNCHANGED <<registryLookupForConda, fs, stdout, entry, calls,
                   interpreters, condaFile, execCount, execErr, info, arg,
                   displayName, envs, promises, checks, result, results, log>>

SpecVersion == InitVersion /\ [][GetLatestVersion]_vars

-----------------------------------------------------------------------------
(* Vocabulary of the properties *)

\* a getInterpreters() call has been made
Discovering == entry = "getInterpreters" /\ calls > 0

\* the call in flight resolved through Promise.all
Joined == pc = "done" /\ Len(log) > 0 /\ log[Len(log)] = "join"

\* the candidate environment roots of a descriptor: its envs entries, then
\* default_prefix when present and non-empty
CandidateRoots(o) ==
    (IF o.envs.k = "arr" THEN o.envs.v ELSE <<>>)
    \o (IF o.default_prefix.k = "str" /\ o.default_prefix.v # <<>>
        THEN <<o.default_prefix.v>> ELSE <<>>)

Paths(list) == [n \in 1..Len(list) |-> list[n].path]

EndsWith(s, suffix) ==
    /\ Len(s) >= Len(suffix)
    /\ SubSeq(s, Len(s) - Len(suffix) + 1, Len(s)) = suffix

\* the display name a candidate root is to get, given the base name
ExpectedName(env, o, base) ==
    IF o.default_prefix.k = "str" /\ env = o.default_prefix.v
    THEN base
    ELSE base \o <<" ", "(">> \o pathBasename(env) \o <<")">>

\* stdout is empty or does not have the CondaInfoDescriptor shape
IllTyped(o) ==
    \/ o.envs.k = "num"
    \/ \E f \in {"default_prefix", "conda_version", "python_version",
                 "platform", "sys_version"} : o[f].k = "num"

NotADescriptor(out) ==
    \/ out.kind \in {"empty", "text"}
    \/ out.val.t \in {"null", "num"}
    \/ IllTyped(out.val.o)

-----------------------------------------------------------------------------
(* C1 *)

\* C1: getInterpreters() never surfaces an error: whatever the provider,
\* the subprocess, stdout and the filesystem do, its promise is never
\* rejected.
C1_NeverRejected == Discovering => pc # "rejected"

(* C2 *)

\* C2: whenever stdout is empty or is not parseable as a descriptor
\* (malformed JSON, JSON of an unexpected shape), a call that has run the
\* callback and settled has resolved with the empty list, whatever the
\* execution error.
C2_UnparseableGivesEmpty ==
    (/\ Discovering
     /\ execCount = 1
     /\ pc \in {"done", "rejected"}
     /\ NotADescriptor(stdout))
    => (pc = "done" /\ result = <<>>)

(* C3 *)

\* C3: every returned record has a path whose existence check answered true
\* in this call and carries the Conda vendor string; every candidate whose
\* interpreter path was reported missing is absent from the result.
C3_OnlyVerifiedPaths ==
    Joined =>
        /\ \A i \in 1..Len(result) :
              /\ pathExists(result[i].path)
              /\ \E n \in 1..Len(checks) :
                    checks[n] = "yes" /\ promises[n] = result[i]
              /\ result[i].companyDisplayName = Str(AnacondaCompanyName)
        /\ \A n \in 1..Len(CandidateRoots(arg.o)) :
              ~pathExists(PythonPath(CandidateRoots(arg.o)[n]))
              => \A i \in 1..Len(result) :
                    result[i].path # PythonPath(CandidateRoots(arg.o)[n])

\* a call returned some candidates and dropped others
C3_Witness ==
    /\ Joined
    /\ Len(result) > 0
    /\ \E n \in 1..Len(checks) : checks[n] = "no"

(* C4 *)

\* C4: the returned records follow the order of the descriptor's envs, the
\* default_prefix environment last, whatever the order in which the
\* existence checks completed.
C4_OrderOfEnvs ==
    Joined =>
        Paths(result) =
            SelectSeq([n \in 1..Len(CandidateRoots(arg.o)) |->
                          PythonPath(CandidateRoots(arg.o)[n])],
                      pathExists)

\* two environments and the root, all found
C4_Witness ==
    /\ Joined
    /\ arg.o.envs = Arr(<<P_foo, P_foo>>) /\ arg.o.default_prefix = Str(P_root)
    /\ Paths(result) = <<PythonPath(P_foo), PythonPath(P_foo), PythonPath(P_root)>>

(* C5 *)

\* C5: the default/root prefix candidate gets exactly getDisplayName(info);
\* every other candidate gets that name, a space and the basename of its
\* directory in parentheses.
C5_DisplayNames ==
    Joined =>
        LET base == getDisplayName(arg.o)
            roots == CandidateRoots(arg.o)
        IN  /\ Len(promises) = Len(roots)
            /\ \A n \in 1..Len(promises) :
                  promises[n].displayName = Str(ExpectedName(roots[n], arg.o, base))
            /\ \A i \in 1..Len(result) : \E n \in 1..Len(roots) :
                  /\ result[i].path = PythonPath(roots[n])
                  /\ result[i].displayName = Str(ExpectedName(roots[n], arg.o, base))
            /\ (/\ arg.o.envs = Arr(<<P_foo>>)
                /\ arg.o.default_prefix = Undef
                /\ pathExists(PythonPath(P_foo)))
               => /\ Len(result) = 1
                  /\ EndsWith(result[1].displayName.v, <<"(", "f", "o", "o", ")">>)
            /\ (/\ arg.o.envs = Undef
                /\ arg.o.default_prefix = Str(P_root)
                /\ pathExists(PythonPath(P_root)))
               => /\ Len(result) = 1
                  /\ result[1].displayName = Str(base)

\* an environment and the root returned by one call
C5_Witness ==
    /\ Joined
    /\ arg.o.envs = Arr(<<P_foo>>) /\ arg.o.default_prefix = Str(P_root)
    /\ Len(result) = 2
    /\ EndsWith(result[1].displayName.v, <<"(", "f", "o", "o", ")">>)
    /\ result[2].displayName = Str(displayName)

(* C6 *)

ConfiguredCandidates ==
    {n \in 1..Len(interpreters) :
        isCondaEnvironment(interpreters[n]) /\ HasVersion(interpreters[n])}

Highest(n) ==
    \A m \in ConfiguredCandidates :
        compareVersion(interpreters[m].version.v, interpreters[n].version.v) <= 0

Launcher(n) == pathJoin(<<pathDirname(interpreters[n].path), S_condaExe>>)

\* C6: getCondaFile never raises; it resolves to the launcher beside the
\* highest-version Conda-flavoured interpreter when a provider is
\* configured, yields one and that launcher exists, and to 'conda'
\* in every other case.
C6_CondaFile ==
    Discovering =>
        /\ ~(pc = "rejected" /\ execCount = 0)
        /\ pc = "located" =>
              \/ /\ registryLookupForConda = "present"
                 /\ \E n \in ConfiguredCandidates :
                       /\ Highest(n)
                       /\ pathExists(Launcher(n))
                       /\ condaFile = Launcher(n)
              \/ /\ condaFile = S_conda
                 /\ \/ registryLookupForConda = "absent"
                    \/ ConfiguredCandidates = {}
                    \/ \E n \in ConfiguredCandidates :
                          Highest(n) /\ ~pathExists(Launcher(n))

(* C7 *)

\* C7: getLatestVersion never selects a candidate without a version,
\* returns nothing when no candidate has one, and otherwise returns a
\* candidate whose version is greatest segment by segment as numbers:
\* "3.10.0" wins over "3.8.0".
C7_LatestVersion ==
    (entry = "getLatestVersion" /\ pc = "done") =>
        LET versioned == {n \in 1..Len(interpreters) : HasVersion(interpreters[n])}
        IN  /\ versioned = {} => latest = <<>>
            /\ versioned # {} =>
                  /\ Len(latest) = 1
                  /\ \E n \in versioned : interpreters[n] = latest[1]
                  /\ \A n \in versioned :
                        compareVersion(interpreters[n].version.v,
                                       latest[1].version.v) <= 0
            /\ (/\ \E n \in versioned : interpreters[n].version.v = V_3100
                /\ \A n \in versioned : interpreters[n].version.v \in {V_380, V_3100})
               => latest[1].version.v = V_3100

\* "3.10.0" selected among "3.10.0", an unversioned candidate and "3.8.0"
C7_Witness ==
    /\ entry = "getLatestVersion" /\ pc = "done"
    /\ Len(interpreters) = 3
    /\ interpreters[1].version = Str(V_3100)
    /\ interpreters[2].version = Undef
    /\ interpreters[3].version = Str(V_380)
    /\ latest = <<interpreters[1]>>

(* C8 *)

\* C8: discovery is idempotent: two completed calls against the same
\* descriptor and filesystem return identical lists.
C8_Idempotent ==
    \A i, j \in 1..Len(results) : results[i] = results[j]

(* C9 *)

SecondSegment(s) == Trim(Split(s, "|")[2])

\* C9: when conda_version, the truncated python version and the
\* bitness-and-version string are all empty the name comes from sys.version
\* (its second '|' segment when that contains 'conda', else the fixed Conda
\* display name, also when sys.version is absent or empty); otherwise it is
\* the vendor name, conda_version and the parenthesised bitness-and-version
\* joined by single spaces.
C9_DisplayName ==
    (entry = "getDisplayName" /\ pc = "done") =>
        LET o == info.o
            cv == OrEmpty(o.conda_version)
            pv == getDisplayVersion(OrEmpty(o.python_version))
            bv == BitnesAndVersion(o)
            sv == OrEmpty(o.sys_version)
        IN  IF cv = <<>> /\ pv = <<>> /\ bv = <<>>
            THEN displayName =
                    IF /\ Len(Split(sv, "|")) >= 2
                       /\ IndexOf(SecondSegment(sv), S_conda) >= 0
                    THEN SecondSegment(sv)
                    ELSE AnacondaDisplayName
            ELSE displayName =
                    AnacondaCompanyName
                    \o (IF cv = <<>> THEN <<>> ELSE <<" ">> \o cv)
                    \o (IF bv = <<>> THEN <<>> ELSE <<" ", "(">> \o bv \o <<")">>)

(* C10 *)

Rank(step) ==
    CASE step = "locate" -> 1
      [] step = "invoke" -> 2
      [] step = "parse" -> 3
      [] step = "check" -> 4
      [] step = "join" -> 5

Count(step) == Cardinality({n \in 1..Len(log) : log[n] = step})

C10_Order ==
    /\ \A m, n \in 1..Len(log) : m < n => Rank(log[m]) <= Rank(log[n])
    /\ execCount <= 1 /\ Count("invoke") = execCount /\ Count("parse") <= 1
    /\ (Discovering /\ Count("parse") = 1) =>
          /\ Len(log) >= 3
          /\ log[1] = "locate" /\ log[2] = "invoke" /\ log[3] = "parse"
    /\ Count("check") > 0 => Count("parse") = 1
    /\ Joined => /\ AllSettled(checks)
                 /\ Count("check") = Len(promises)

\* C10: a call locates the binary, invokes the subprocess exactly once,
\* parses, then checks; it resolves only after every existence check has
\* completed, and once they all have it eventually resolves.
C10_Barrier ==
    /\ []C10_Order
    /\ (pc = "checking" /\ AllSettled(checks)) ~> (pc = "done")

\* a discovery that resolved after three existence checks
C10_Witness ==
    /\ Discovering /\ Joined
    /\ Len(checks) = 3
    /\ log = <<"locate", "invoke", "parse", "check", "check", "check", "join">>

=============================================================================
